---- MODULE Spec2Model ----
(***************************************************************************)
(* Model of the LiveKit token server, src/src/livekit/server.ts.           *)
(*                                                                         *)
(* An Express application with three routes: GET / (static page),          *)
(* GET /health, and POST /api/token, behind the cors and express.json      *)
(* middleware; any other path finds no route.  The token handler is an async *)
(* function with a single await (tokenBuilder.toJwt()); everything before  *)
(* that await runs in one event-loop turn.  The signing primitive          *)
(* (livekit-server-sdk AccessToken) is an external library: its outcome    *)
(* (a credential, or a thrown value) is chosen nondeterministically.       *)
(*                                                                         *)
(* Strings are sequences of tokens (<<>> is the empty string), so that     *)
(* emptiness, concatenation and containment are computed, not assumed.     *)
(***************************************************************************)
EXTENDS Integers, Sequences, FiniteSets, TLC

(***************************************************************************)
(* Bounds                                                                  *)
(***************************************************************************)
\* Number of HTTP requests the server receives in one behaviour.
MaxRequests == 2

Requests == 1..MaxRequests

(***************************************************************************)
(* JavaScript values, as they appear in a parsed JSON body or are thrown.  *)
(***************************************************************************)
JSVal(t, s, n, b) == [t |-> t, s |-> s, n |-> n, b |-> b]

Undefined == JSVal("undefined", <<>>, 0, FALSE)
Null      == JSVal("null", <<>>, 0, FALSE)
Str(s)    == JSVal("string", s, 0, FALSE)
Num(n)    == JSVal("number", <<>>, n, FALSE)
Bool(b)   == JSVal("boolean", <<>>, 0, b)
Arr       == JSVal("array", <<>>, 0, FALSE)
Obj       == JSVal("object", <<>>, 0, FALSE)

\* JavaScript ToBoolean, used by the `!x` tests of the handler.
Truthy(v) ==
    CASE v.t = "undefined" -> FALSE
      [] v.t = "null"      -> FALSE
      [] v.t = "string"    -> v.s # <<>>
      [] v.t = "number"    -> v.n # 0
      [] v.t = "boolean"   -> v.b
      [] OTHER             -> TRUE

DigitChar(d) == <<"0", "1", "2", "3", "4", "5", "6", "7", "8", "9">>[d + 1]

RECURSIVE ToDecimal(_)
ToDecimal(n) ==
    IF n < 10 THEN <<DigitChar(n)>>
    ELSE ToDecimal(n \div 10) \o <<DigitChar(n % 10)>>

\* JavaScript String(v), used by the catch block for non-Error throwables.
String(v) ==
    CASE v.t = "undefined" -> <<"undefined">>
      [] v.t = "null"      -> <<"null">>
      [] v.t = "string"    -> v.s
      [] v.t = "number"    -> ToDecimal(v.n)
      [] v.t = "boolean"   -> IF v.b THEN <<"true">> ELSE <<"false">>
      [] v.t = "array"     -> <<>>
      [] OTHER             -> <<"[object Object]">>

\* s contains sub as a contiguous substring (String.prototype.includes).
Contains(s, sub) ==
    \E i \in 1..(Len(s) - Len(sub) + 1) : SubSeq(s, i, i + Len(sub) - 1) = sub

(***************************************************************************)
(* process.env: each variable is unset, or set to a string (maybe empty).  *)
(***************************************************************************)
EnvUnset  == [set |-> FALSE, s |-> <<>>]
EnvSet(s) == [set |-> TRUE, s |-> s]

\* `!x` on a value read from process.env (undefined or a string).
EnvTruthy(e) == e.set /\ e.s # <<>>

ApiKeyValues    == {EnvUnset, EnvSet(<<>>), EnvSet(<<"APIkey">>)}
ApiSecretValues == {EnvUnset, EnvSet(<<>>), EnvSet(<<"s3cr3t">>)}
ServerUrlValues == {EnvUnset, EnvSet(<<>>), EnvSet(<<"wss://", "lk.example">>)}

Environments ==
    [LIVEKIT_API_KEY : ApiKeyValues,
     LIVEKIT_API_SECRET : ApiSecretValues,
     LIVEKIT_URL : ServerUrlValues]

(***************************************************************************)
(* Requests                                                                *)
(***************************************************************************)
\* interface TokenRequest plus what a client may actually send: the parsed
\* body is undefined (no body), an array, or an object whose roomName and
\* participantName are any JSON value and which may carry extra fields.
\* Bodies varies one field at a time around a valid pair, and adds a pair
\* of names with surrounding blanks and bodies with extra fields.
Body(kind, room, name, extra) ==
    [kind |-> kind, roomName |-> room, participantName |-> name, extra |-> extra]

\* Extra body fields: grant switches and an address, which the handler
\* never destructures.
NoExtra    == [canPublish |-> Undefined, roomAdmin |-> Undefined,
               serverUrl |-> Undefined]
GrantExtra == [canPublish |-> Bool(FALSE), roomAdmin |-> Bool(TRUE),
               serverUrl |-> Str(<<"wss://", "other.example">>)]

\* Values sent as roomName / participantName: missing, null, empty string,
\* a string, and non-string JSON values.
RoomValues ==
    {Undefined, Null, Str(<<>>), Str(<<"r1">>), Num(7)}
NameValues ==
    {Undefined, Num(0), Str(<<>>), Str(<<"al">>), Bool(TRUE)}

Bodies ==
    {Body("undefined", Undefined, Undefined, NoExtra),
     Body("array", Undefined, Undefined, NoExtra),
     Body("object", Str(<<"r1">>), Str(<<"al">>), GrantExtra),
     Body("object", Undefined, Str(<<"al">>), GrantExtra),
     Body("object", Undefined, Undefined, NoExtra),
     Body("object", Str(<<>>), Str(<<>>), NoExtra),
     Body("object", Str(<<" ", "r2", " ">>), Str(<<" ", "bo">>), NoExtra)}
    \cup {Body("object", rn, Str(<<"al">>), NoExtra) : rn \in RoomValues}
    \cup {Body("object", Str(<<"r1">>), pn, NoExtra) : pn \in NameValues}

NoBody == Body("undefined", Undefined, Undefined, NoExtra)

\* const { roomName, participantName } = req.body ?? {};
Destructure(body) ==
    IF body.kind = "object"
    THEN [roomName |-> body.roomName, participantName |-> body.participantName]
    ELSE [roomName |-> Undefined, participantName |-> Undefined]

(***************************************************************************)
(* The signing primitive (AccessToken / addGrant / toJwt)                  *)
(***************************************************************************)
\* Variant: the grant also carries roomAdmin.
VideoGrantAdmin(roomName) ==
    [room |-> roomName,
     caps |-> {<<"roomJoin", TRUE>>, <<"canPublish", TRUE>>,
               <<"canSubscribe", TRUE>>, <<"canUpdateOwnMetadata", TRUE>>,
               <<"roomAdmin", TRUE>>}]

\* The VideoGrant literal passed to addGrant.
VideoGrant(roomName) ==
    [room |-> roomName,
     caps |-> {<<"roomJoin", TRUE>>, <<"canPublish", TRUE>>,
               <<"canSubscribe", TRUE>>, <<"canUpdateOwnMetadata", TRUE>>}]

\* Variant: the identity is taken from roomName.
TokenBuilderRoomIdentity(apiKey, apiSecret, dest) ==
    [apiKey |-> apiKey, apiSecret |-> apiSecret,
     identity |-> dest.roomName, name |-> dest.participantName,
     grants |-> <<VideoGrant(dest.roomName)>>]

\* new AccessToken(apiKey, apiSecret, {identity, name}) followed by addGrant.
TokenBuilder(apiKey, apiSecret, dest) ==
    [apiKey |-> apiKey, apiSecret |-> apiSecret,
     identity |-> dest.participantName, name |-> dest.participantName,
     grants |-> <<VideoGrant(dest.roomName)>>]

\* Credentials toJwt may resolve with: non-empty compact JWTs; two values,
\* since the primitive may embed timestamps or nonces.
Credentials == {<<"hdr", ".", "claimsA", ".", "sig">>, <<"hdr", ".", "claimsB", ".", "sig">>}

\* Values the primitive may throw: Error instances (with a message) or any
\* other value.  One Error message quotes the secret it was given.
Thrown(isError, message, value) ==
    [isError |-> isError, message |-> message, value |-> value]

Throwables(secret) ==
    {Thrown(TRUE, <<"identity is required for join but not set">>, Undefined),
     Thrown(TRUE, <<"invalid secret: ">> \o secret, Undefined),
     Thrown(FALSE, <<>>, Str(<<"boom">>)),
     Thrown(FALSE, <<>>, Num(42))}

NoOutcome    == [kind |-> "none", token |-> <<>>, thrown |-> Thrown(FALSE, <<>>, Undefined)]
Resolved(t)  == [kind |-> "token", token |-> t, thrown |-> Thrown(FALSE, <<>>, Undefined)]
Rejected(e)  == [kind |-> "throw", token |-> <<>>, thrown |-> e]

(***************************************************************************)
(* Responses                                                               *)
(***************************************************************************)
\* A response: status code, content type, the set of keys of a JSON body
\* and their values (fields not in keys hold a filler).
Response(status, ctype, keys, f) ==
    [status |-> status, ctype |-> ctype, keys |-> keys,
     error |-> f.error, details |-> f.details, token |-> f.token,
     serverUrl |-> f.serverUrl, roomName |-> f.roomName,
     participantName |-> f.participantName,
     statusField |-> f.statusField, message |-> f.message]

Blank ==
    [error |-> <<>>, details |-> <<>>, token |-> <<>>, serverUrl |-> <<>>,
     roomName |-> Undefined, participantName |-> Undefined,
     statusField |-> <<>>, message |-> <<>>]

\* Variant: the health route answers 503.
HealthResponseDegraded ==
    Response(503, "json", {"status", "message"},
             [Blank EXCEPT !.statusField = <<"degraded">>,
                           !.message = <<"LiveKit Token Server is running">>])

\* res.json({ status: "ok", message: "LiveKit Token Server is running" })
HealthResponse ==
    Response(200, "json", {"status", "message"},
             [Blank EXCEPT !.statusField = <<"ok">>,
                           !.message = <<"LiveKit Token Server is running">>])

\* Variant: the 400 body also reports on the server's configuration.
ValidationErrorResponseDetailed ==
    Response(400, "json", {"error", "details"},
             [Blank EXCEPT !.error = <<"roomName and participantName are required">>,
                           !.details = <<"LIVEKIT_API_SECRET is set">>])

\* res.status(400).json({ error: "roomName and participantName are required" })
ValidationErrorResponse ==
    Response(400, "json", {"error"},
             [Blank EXCEPT !.error = <<"roomName and participantName are required">>])

\* res.status(500).json({ error: "LiveKit credentials are not configured" })
ConfigurationErrorResponse ==
    Response(500, "json", {"error"},
             [Blank EXCEPT !.error = <<"LiveKit credentials are not configured">>])

\* Variant: roomName and participantName exchanged in the success body.
SuccessResponseSwapped(token, serverUrl, roomName, participantName) ==
    Response(200, "json", {"token", "serverUrl", "roomName", "participantName"},
             [Blank EXCEPT !.token = token, !.serverUrl = serverUrl,
                           !.roomName = participantName,
                           !.participantName = roomName])

\* res.json({ token, serverUrl, roomName, participantName })
SuccessResponse(token, serverUrl, roomName, participantName) ==
    Response(200, "json", {"token", "serverUrl", "roomName", "participantName"},
             [Blank EXCEPT !.token = token, !.serverUrl = serverUrl,
                           !.roomName = roomName,
                           !.participantName = participantName])

\* Variant: error.message is read whatever was thrown.
ErrorMessageOnly(e) == e.message

\* const message = error instanceof Error ? error.message : String(error);
ErrorMessage(e) == IF e.isError THEN e.message ELSE String(e.value)

\* res.status(500).json({ error: "Failed to generate token", details: message })
SigningErrorResponse(e) ==
    Response(500, "json", {"error", "details"},
             [Blank EXCEPT !.error = <<"Failed to generate token">>,
                           !.details = ErrorMessage(e)])

\* GET / : res.send(htmlContent) or res.status(500).send("<h1>Error ...</h1>")
PageResponse(ok) ==
    IF ok
    THEN Response(200, "html", {}, [Blank EXCEPT !.message = <<"index.html">>])
    ELSE Response(500, "html", {},
                  [Blank EXCEPT !.message = <<"<h1>Error loading HTML file</h1>">>])

\* app.use(express.json()): a body that is not the JSON text of an object
\* or array is refused by the middleware; no error handler is registered,
\* so Express answers with its own 400 HTML page and no route handler runs.
BodyParseErrorResponse ==
    Response(400, "html", {}, [Blank EXCEPT !.message = <<"SyntaxError">>])

\* The routes registered on app.
RegisteredRoutes == {"GET /", "GET /health", "POST /api/token"}

\* Paths requested that may or may not be registered.
RequestedPaths == {"GET /client"}

\* A request no registered route matches gets Express's 404 HTML page.
NotFoundResponse(path) ==
    Response(404, "html", {}, [Blank EXCEPT !.message = <<"Cannot ", path>>])

(***************************************************************************)
(* State                                                                   *)
(***************************************************************************)
VARIABLES
    server,     \* the process: "starting", "listening" or "crashed"
    env,        \* process.env (the three LiveKit variables)
    route,      \* route[r]: the route request r was sent to
    body,       \* body[r]: req.body of request r
    pc,         \* pc[r]: "new", "await_read", "await_sign" or "done"
    local,      \* local[r]: the handler's locals captured before the await
    resp,       \* resp[r]: the responses written for request r, in order
    signLog,    \* signLog[r]: the token builders request r called toJwt on
    outcome,    \* outcome[r]: what toJwt produced for request r
    envReads    \* envReads[r]: the process.env variables request r has read

vars == <<server, env, route, body, pc, local, resp, signLog, outcome, envReads>>

NoLocal ==
    [roomName |-> Undefined, participantName |-> Undefined,
     apiKey |-> EnvUnset, apiSecret |-> EnvUnset, serverUrl |-> EnvUnset]

Init ==
    /\ server = "starting"
    /\ env \in Environments
    /\ route = [r \in Requests |-> "none"]
    /\ body = [r \in Requests |-> NoBody]
    /\ pc = [r \in Requests |-> "new"]
    /\ local = [r \in Requests |-> NoLocal]
    /\ resp = [r \in Requests |-> <<>>]
    /\ signLog = [r \in Requests |-> <<>>]
    /\ outcome = [r \in Requests |-> NoOutcome]
    /\ envReads = [r \in Requests |-> {}]

\* Module evaluation up to app.listen: nothing at startup looks at the
\* three LiveKit variables, so no configuration state stops the start.
StartupFails(e) == FALSE

\* app.listen(port, ...)
Listen ==
    /\ server = "starting"
    /\ server' = IF StartupFails(env) THEN "crashed" ELSE "listening"
    /\ UNCHANGED <<env, route, body, pc, local, resp, signLog, outcome, envReads>>

\* Requests are numbered in order of arrival; a listening process takes them.
Arrives(r) ==
    /\ server = "listening"
    /\ pc[r] = "new" /\ \A q \in Requests : q < r => pc[q] # "new"

(***************************************************************************)
(* GET /health                                                             *)
(***************************************************************************)
GetHealth(r) ==
    /\ Arrives(r)
    /\ route' = [route EXCEPT ![r] = "GET /health"]
    /\ resp' = [resp EXCEPT ![r] = Append(@, HealthResponse)]
    /\ pc' = [pc EXCEPT ![r] = "done"]
    /\ UNCHANGED <<server, env, body, local, signLog, outcome, envReads>>

(***************************************************************************)
(* GET /                                                                   *)
(***************************************************************************)
GetRoot(r) ==
    /\ Arrives(r)
    /\ route' = [route EXCEPT ![r] = "GET /"]
    /\ pc' = [pc EXCEPT ![r] = "await_read"]
    /\ UNCHANGED <<server, env, body, local, resp, signLog, outcome, envReads>>

GetRootDone(r, ok) ==
    /\ server = "listening"
    /\ pc[r] = "await_read"
    /\ resp' = [resp EXCEPT ![r] = Append(@, PageResponse(ok))]
    /\ pc' = [pc EXCEPT ![r] = "done"]
    /\ UNCHANGED <<server, env, route, body, local, signLog, outcome, envReads>>

(***************************************************************************)
(* POST /api/token                                                         *)
(***************************************************************************)
\* Variant: rejects only when both fields are missing (&& for ||).
InvalidBothMissing(dest) == ~Truthy(dest.roomName) /\ ~Truthy(dest.participantName)

\* if (!roomName || !participantName)
Invalid(dest) == ~Truthy(dest.roomName) \/ ~Truthy(dest.participantName)

\* Variant: refuses only when all three values are missing (&& for ||).
NotConfiguredAllMissing(apiKey, apiSecret, serverUrl) ==
    ~EnvTruthy(apiKey) /\ ~EnvTruthy(apiSecret) /\ ~EnvTruthy(serverUrl)

\* Variant: the media-service address is not checked.
NotConfiguredNoUrl(apiKey, apiSecret, serverUrl) ==
    ~EnvTruthy(apiKey) \/ ~EnvTruthy(apiSecret)

\* if (!apiKey || !apiSecret || !serverUrl)
NotConfigured(apiKey, apiSecret, serverUrl) ==
    ~EnvTruthy(apiKey) \/ ~EnvTruthy(apiSecret) \/ ~EnvTruthy(serverUrl)

\* Variant: the configuration check runs before validation.
StageConfigFirst(dest, apiKey, apiSecret, serverUrl) ==
    IF NotConfigured(apiKey, apiSecret, serverUrl) THEN "configuration_error"
    ELSE IF Invalid(dest) THEN "validation_error"
    ELSE "sign"

\* The synchronous part of the handler decides, in this order: the 400 of
\* validation, the 500 of the configuration check, or signing.
Stage(dest, apiKey, apiSecret, serverUrl) ==
    IF Invalid(dest) THEN "validation_error"
    ELSE IF NotConfigured(apiKey, apiSecret, serverUrl) THEN "configuration_error"
    ELSE "sign"

AllEnvNames == {"LIVEKIT_API_KEY", "LIVEKIT_API_SECRET", "LIVEKIT_URL"}

\* Variant: an unset address falls back to a built-in default.
EnvConfigFallback(e) ==
    [apiKey |-> e.LIVEKIT_API_KEY, apiSecret |-> e.LIVEKIT_API_SECRET,
     serverUrl |-> IF e.LIVEKIT_URL.set THEN e.LIVEKIT_URL
                   ELSE EnvSet(<<"ws://", "localhost:7880">>)]

\* const apiKey = process.env.LIVEKIT_API_KEY; ... apiSecret ...; serverUrl ...
EnvConfig(e) ==
    [apiKey |-> e.LIVEKIT_API_KEY, apiSecret |-> e.LIVEKIT_API_SECRET,
     serverUrl |-> e.LIVEKIT_URL]

\* Variant: the address is read from process.env again after the await.
LocalsRereadUrl(r) == [local[r] EXCEPT !.serverUrl = env.LIVEKIT_URL]

\* Variant: the bindings are module-level variables, so a handler resuming
\* after its await sees what the latest signing request stored.
LocalsLastWriter(r) ==
    local[CHOOSE q \in Requests :
            /\ signLog[q] # <<>>
            /\ \A p \in Requests : signLog[p] # <<>> => p <= q]

\* The handler's const bindings belong to one invocation of the handler.
Locals(r) == local[r]

\* express.json refuses the body of a POST /api/token request (unparseable
\* text, or JSON that is no object or array): the handler is not reached.
JsonBodyRejected(r) ==
    /\ Arrives(r)
    /\ route' = [route EXCEPT ![r] = "POST /api/token"]
    /\ body' = [body EXCEPT ![r] = Body("malformed", Undefined, Undefined, NoExtra)]
    /\ resp' = [resp EXCEPT ![r] = Append(@, BodyParseErrorResponse)]
    /\ pc' = [pc EXCEPT ![r] = "done"]
    /\ UNCHANGED <<server, env, local, signLog, outcome, envReads>>

\* A request for a path outside the registered routes.
GetUnrouted(r, path) ==
    /\ Arrives(r)
    /\ path \notin RegisteredRoutes
    /\ route' = [route EXCEPT ![r] = path]
    /\ resp' = [resp EXCEPT ![r] = Append(@, NotFoundResponse(path))]
    /\ pc' = [pc EXCEPT ![r] = "done"]
    /\ UNCHANGED <<server, env, body, local, signLog, outcome, envReads>>

\* Variant: the configuration is loaded with an await, so the handler
\* yields between validation and the configuration check.
PostTokenAwaitsConfig(r, b) ==
    /\ Arrives(r)
    /\ route' = [route EXCEPT ![r] = "POST /api/token"]
    /\ body' = [body EXCEPT ![r] = b]
    /\ IF Invalid(Destructure(b))
       THEN /\ resp' = [resp EXCEPT ![r] = Append(@, ValidationErrorResponse)]
            /\ pc' = [pc EXCEPT ![r] = "done"]
       ELSE /\ pc' = [pc EXCEPT ![r] = "await_config"]
            /\ UNCHANGED resp
    /\ UNCHANGED <<server, env, local, signLog, outcome, envReads>>

\* Variant: the `return` after the 400 is missing, so the handler goes on
\* to the configuration check and to signing.
PostTokenNoReturn(r, b) ==
    /\ Arrives(r)
    /\ route' = [route EXCEPT ![r] = "POST /api/token"]
    /\ body' = [body EXCEPT ![r] = b]
    /\ LET dest == Destructure(b)
           cfg == EnvConfig(env)
           first == IF Invalid(dest) THEN <<ValidationErrorResponse>> ELSE <<>>
       IN  /\ envReads' = [envReads EXCEPT ![r] = AllEnvNames]
           /\ IF NotConfigured(cfg.apiKey, cfg.apiSecret, cfg.serverUrl)
              THEN /\ resp' = [resp EXCEPT ![r] =
                           first \o <<ConfigurationErrorResponse>>]
                   /\ pc' = [pc EXCEPT ![r] = "done"]
                   /\ UNCHANGED <<local, signLog>>
              ELSE /\ resp' = [resp EXCEPT ![r] = first]
                   /\ local' = [local EXCEPT ![r] =
                           [roomName |-> dest.roomName,
                            participantName |-> dest.participantName,
                            apiKey |-> cfg.apiKey, apiSecret |-> cfg.apiSecret,
                            serverUrl |-> cfg.serverUrl]]
                   /\ signLog' = [signLog EXCEPT ![r] =
                           Append(@, TokenBuilder(cfg.apiKey.s, cfg.apiSecret.s, dest))]
                   /\ pc' = [pc EXCEPT ![r] = "await_sign"]
    /\ UNCHANGED <<server, env, outcome>>

\* The handler from its entry up to the await: validation, configuration
\* lookup, token builder construction and the call of toJwt.
PostToken(r, b) ==
    /\ Arrives(r)
    /\ route' = [route EXCEPT ![r] = "POST /api/token"]
    /\ body' = [body EXCEPT ![r] = b]
    /\ LET dest == Destructure(b)
           apiKey == EnvConfig(env).apiKey
           apiSecret == EnvConfig(env).apiSecret
           serverUrl == EnvConfig(env).serverUrl
           stage == Stage(dest, apiKey, apiSecret, serverUrl)
       IN  CASE stage = "validation_error" ->
                /\ resp' = [resp EXCEPT ![r] = Append(@, ValidationErrorResponse)]
                /\ pc' = [pc EXCEPT ![r] = "done"]
                /\ UNCHANGED <<local, signLog, envReads>>
             [] stage = "configuration_error" ->
                /\ envReads' = [envReads EXCEPT ![r] = AllEnvNames]
                /\ resp' = [resp EXCEPT ![r] = Append(@, ConfigurationErrorResponse)]
                /\ pc' = [pc EXCEPT ![r] = "done"]
                /\ UNCHANGED <<local, signLog>>
             [] stage = "sign" ->
                /\ envReads' = [envReads EXCEPT ![r] = AllEnvNames]
                /\ local' = [local EXCEPT ![r] =
                        [roomName |-> dest.roomName,
                         participantName |-> dest.participantName,
                         apiKey |-> apiKey, apiSecret |-> apiSecret,
                         serverUrl |-> serverUrl]]
                /\ signLog' = [signLog EXCEPT ![r] =
                        Append(@, TokenBuilder(apiKey.s, apiSecret.s, dest))]
                /\ pc' = [pc EXCEPT ![r] = "await_sign"]
                /\ UNCHANGED resp
    /\ UNCHANGED <<server, env, outcome>>

\* toJwt resolves: res.json({ token, serverUrl, roomName, participantName })
SignResolves(r, t) ==
    /\ server = "listening"
    /\ pc[r] = "await_sign"
    /\ outcome' = [outcome EXCEPT ![r] = Resolved(t)]
    /\ resp' = [resp EXCEPT ![r] =
            Append(@, SuccessResponse(t, Locals(r).serverUrl.s, Locals(r).roomName,
                                      Locals(r).participantName))]
    /\ pc' = [pc EXCEPT ![r] = "done"]
    /\ UNCHANGED <<server, env, route, body, local, signLog, envReads>>

\* Variant: the catch block rethrows what is not an Error.
CatchBlockCompletesErrorsOnly(e) == e.isError

\* The catch block runs to its end for the thrown value: `instanceof` and
\* `.message` work on an Error, String() on the other values thrown.
CatchBlockCompletes(e) ==
    \/ e.isError
    \/ e.value.t \in {"undefined", "null", "string", "number", "boolean",
                      "array", "object"}

\* Variant: the catch block calls toJwt again for as long as it fails.
SignRejectsLoops(r, e) ==
    /\ server = "listening"
    /\ pc[r] = "await_sign"
    /\ outcome' = [outcome EXCEPT ![r] = Rejected(e)]
    /\ UNCHANGED <<server, env, route, body, pc, local, resp, signLog, envReads>>

\* Variant: the catch block calls toJwt once more before giving up.
SignRejectsRetry(r, e) ==
    /\ server = "listening"
    /\ pc[r] = "await_sign"
    /\ outcome' = [outcome EXCEPT ![r] = Rejected(e)]
    /\ IF Len(signLog[r]) < 2
       THEN /\ signLog' = [signLog EXCEPT ![r] = Append(@, signLog[r][1])]
            /\ UNCHANGED <<resp, pc>>
       ELSE /\ resp' = [resp EXCEPT ![r] = Append(@, SigningErrorResponse(e))]
            /\ pc' = [pc EXCEPT ![r] = "done"]
            /\ UNCHANGED signLog
    /\ UNCHANGED <<server, env, route, body, local, envReads>>

\* toJwt throws: the catch block answers 500 with the failure's message.  A
\* value escaping the catch block rejects the handler's promise, which
\* nothing handles: the process ends.
SignRejects(r, e) ==
    /\ server = "listening"
    /\ pc[r] = "await_sign"
    /\ outcome' = [outcome EXCEPT ![r] = Rejected(e)]
    /\ IF CatchBlockCompletes(e)
       THEN /\ resp' = [resp EXCEPT ![r] = Append(@, SigningErrorResponse(e))]
            /\ pc' = [pc EXCEPT ![r] = "done"]
            /\ UNCHANGED server
       ELSE /\ server' = "crashed"
            /\ UNCHANGED <<resp, pc>>
    /\ UNCHANGED <<env, route, body, local, signLog, envReads>>

Next ==
    \/ Listen
    \/ \E r \in Requests : GetHealth(r)
    \/ \E r \in Requests : GetRoot(r)
    \/ \E r \in Requests, ok \in BOOLEAN : GetRootDone(r, ok)
    \/ \E r \in Requests, path \in RequestedPaths : GetUnrouted(r, path)
    \/ \E r \in Requests : JsonBodyRejected(r)
    \/ \E r \in Requests, b \in Bodies : PostToken(r, b)
    \/ \E r \in Requests, t \in Credentials : SignResolves(r, t)
    \/ \E r \in Requests : \E e \in Throwables(local[r].apiSecret.s) : SignRejects(r, e)

Spec == Init /\ [][Next]_vars

(***************************************************************************)
(* Pending signing calls complete                                          *)
(***************************************************************************)
\* The server was started with its three variables set: the only start from
\* which a request gets as far as the signing call.
InitConfigured ==
    /\ Init
    /\ ~NotConfigured(EnvConfig(env).apiKey, EnvConfig(env).apiSecret,
                      EnvConfig(env).serverUrl)

\* The promise returned by toJwt settles: the handler resumes after the
\* await with a credential or in the catch block.
SignCompletes(r) ==
    \/ \E t \in Credentials : SignResolves(r, t)
    \/ \E e \in Throwables(local[r].apiSecret.s) : SignRejects(r, e)

\* Every signing call eventually returns or fails, and the event loop runs
\* the continuation of a settled promise.
SpecLive ==
    /\ InitConfigured
    /\ [][Next]_vars
    /\ \A r \in Requests : WF_vars(SignCompletes(r))

(***************************************************************************)
(* The environment changing under the server                               *)
(***************************************************************************)
\* process.env is a mutable global: code outside the handlers may replace
\* the three values between two event-loop turns (a credential rotation).
\* The change of interest is the one made while a signing call is pending.
RotatedEnv ==
    [LIVEKIT_API_KEY |-> EnvSet(<<"APIkey2">>),
     LIVEKIT_API_SECRET |-> EnvSet(<<"s3cr3t2">>),
     LIVEKIT_URL |-> EnvSet(<<"wss://", "lk2.example">>)]

EnvChanges ==
    /\ server = "listening"
    /\ env # RotatedEnv
    /\ \E r \in Requests : pc[r] = "await_sign"
    /\ env' = RotatedEnv
    /\ UNCHANGED <<server, route, body, pc, local, resp, signLog, outcome, envReads>>

NextEnv == Next \/ EnvChanges

SpecEnv == InitConfigured /\ [][NextEnv]_vars

(***************************************************************************)
(* Properties                                                              *)
(***************************************************************************)
\* The POST /api/token requests, and those of them whose body express.json
\* accepted, which are the ones the handler sees.
AllTokenRequests == {r \in Requests : route[r] = "POST /api/token"}
TokenRequests == {r \in AllTokenRequests : body[r].kind # "malformed"}

\* What the client sent under a key (nothing when the body is no object).
SentRoom(r) == IF body[r].kind = "object" THEN body[r].roomName ELSE Undefined
SentName(r) == IF body[r].kind = "object" THEN body[r].participantName ELSE Undefined

MissingOrEmpty(v) == v.t = "undefined" \/ (v.t = "string" /\ Len(v.s) = 0)
NonEmptyString(v) == v.t = "string" /\ Len(v.s) > 0
WrongType(v)      == v.t \notin {"undefined", "string"}

Present(e) == e.set /\ Len(e.s) > 0
ConfigComplete ==
    Present(env.LIVEKIT_API_KEY) /\ Present(env.LIVEKIT_API_SECRET)
        /\ Present(env.LIVEKIT_URL)

\* Request r has been answered exactly once, with status st.
AnsweredOnce(r, st) == pc[r] = "done" /\ Len(resp[r]) = 1 /\ resp[r][1].status = st

\* C1: a POST /api/token request whose roomName or participantName is
\* missing or empty (also a request without a body) is answered 400 with
\* an `error` field, and the signing primitive is not invoked for it.
C1_MissingFieldsRejected ==
    \A r \in TokenRequests :
        (MissingOrEmpty(SentRoom(r)) \/ MissingOrEmpty(SentName(r))) =>
            /\ AnsweredOnce(r, 400)
            /\ resp[r][1].ctype = "json"
            /\ "error" \in resp[r][1].keys
            /\ signLog[r] = <<>>
            /\ outcome[r].kind = "none"

C1_Witness ==
    \E r, q \in TokenRequests :
        /\ body[r].kind = "undefined" /\ AnsweredOnce(r, 400)
        /\ body[q].kind = "object" /\ NonEmptyString(SentRoom(q))
        /\ SentName(q) = Str(<<>>) /\ AnsweredOnce(q, 400)
        /\ ConfigComplete

\* C2: validation takes precedence over configuration: an invalid request
\* is answered 400 whatever the configuration, and the 500 of the
\* configuration check is only given to a request that passed validation.
C2_ValidationBeforeConfiguration ==
    \A r \in TokenRequests :
        /\ (MissingOrEmpty(SentRoom(r)) \/ MissingOrEmpty(SentName(r))) =>
               /\ AnsweredOnce(r, 400)
               /\ envReads[r] = {}
        /\ (\E i \in 1..Len(resp[r]) : resp[r][i].status = 500) =>
               /\ ~MissingOrEmpty(SentRoom(r))
               /\ ~MissingOrEmpty(SentName(r))
               /\ envReads[r] # {}

C2_Witness ==
    \E r, q \in TokenRequests :
        /\ ~ConfigComplete
        /\ MissingOrEmpty(SentRoom(r)) /\ AnsweredOnce(r, 400)
        /\ NonEmptyString(SentRoom(q)) /\ NonEmptyString(SentName(q))
        /\ AnsweredOnce(q, 500)

\* C3: with the three configuration values present and non-empty roomName
\* and participantName, when signing succeeds the response is 200, its
\* token is the (non-empty) credential the primitive returned, serverUrl
\* is the configured address and both names are echoed as submitted.
C3_SuccessResponse ==
    \A r \in TokenRequests :
        (/\ ConfigComplete
         /\ NonEmptyString(SentRoom(r)) /\ NonEmptyString(SentName(r))
         /\ outcome[r].kind = "token") =>
            /\ AnsweredOnce(r, 200)
            /\ resp[r][1].ctype = "json"
            /\ resp[r][1].keys = {"token", "serverUrl", "roomName", "participantName"}
            /\ resp[r][1].token = outcome[r].token
            /\ Len(resp[r][1].token) > 0
            /\ resp[r][1].serverUrl = env.LIVEKIT_URL.s
            /\ resp[r][1].roomName = body[r].roomName
            /\ resp[r][1].participantName = body[r].participantName

C3_Witness ==
    \E r \in TokenRequests :
        /\ ConfigComplete
        /\ SentRoom(r) = Str(<<" ", "r2", " ">>) /\ SentName(r) = Str(<<" ", "bo">>)
        /\ outcome[r].kind = "token"
        /\ AnsweredOnce(r, 200)

\* The four capabilities of the spec, all enabled.
FixedCapabilities ==
    {<<"roomJoin", TRUE>>, <<"canPublish", TRUE>>, <<"canSubscribe", TRUE>>,
     <<"canUpdateOwnMetadata", TRUE>>}

\* C4: every signing invocation carries exactly the capabilities room-join,
\* publish, subscribe and update-own-metadata, all enabled, whatever the
\* request body contains (extra fields such as canPublish or roomAdmin).
C4_FixedCapabilitySet ==
    \A r \in Requests : \A i \in 1..Len(signLog[r]) :
        \A j \in 1..Len(signLog[r][i].grants) :
            signLog[r][i].grants[j].caps = FixedCapabilities

C4_Witness ==
    \E r, q \in TokenRequests :
        /\ body[r].extra.roomAdmin = Bool(TRUE)
        /\ body[r].extra.canPublish = Bool(FALSE)
        /\ Len(signLog[r]) = 1
        /\ body[q].extra.roomAdmin = Undefined
        /\ Len(signLog[q]) = 1
        /\ signLog[q][1].grants[1].caps = signLog[r][1].grants[1].caps

\* C5: a valid request made while the key id, the secret or the address
\* is absent (unset or empty) is answered 500 with an `error` field and no
\* `details`; the body is one fixed message, the same whichever value is
\* missing, and the signing primitive is not invoked.
C5_ConfigurationError ==
    \A r \in TokenRequests :
        (/\ ~ConfigComplete
         /\ NonEmptyString(SentRoom(r)) /\ NonEmptyString(SentName(r))) =>
            /\ AnsweredOnce(r, 500)
            /\ resp[r][1].ctype = "json"
            /\ resp[r][1].keys = {"error"}
            /\ resp[r][1].error = <<"LiveKit credentials are not configured">>
            /\ signLog[r] = <<>>
            /\ outcome[r].kind = "none"

C5_Witness ==
    \E r \in TokenRequests :
        /\ Present(env.LIVEKIT_API_KEY) /\ Present(env.LIVEKIT_API_SECRET)
        /\ env.LIVEKIT_URL = EnvSet(<<>>)
        /\ NonEmptyString(SentRoom(r)) /\ NonEmptyString(SentName(r))
        /\ AnsweredOnce(r, 500)

\* C6: when the signing primitive fails for a request that passed the
\* validation and configuration checks, the response is 500 with the
\* generic `error` and `details` equal to the failure's message (its
\* string form when it is not an Error); no 200 and no token is produced.
C6_SigningError ==
    \A r \in TokenRequests :
        outcome[r].kind = "throw" =>
            /\ AnsweredOnce(r, 500)
            /\ resp[r][1].ctype = "json"
            /\ resp[r][1].keys = {"error", "details"}
            /\ resp[r][1].error = <<"Failed to generate token">>
            /\ resp[r][1].details =
                   (IF outcome[r].thrown.isError
                    THEN outcome[r].thrown.message
                    ELSE String(outcome[r].thrown.value))

C6_Witness ==
    \E r, q \in TokenRequests :
        /\ outcome[r].kind = "throw" /\ outcome[r].thrown.isError
        /\ AnsweredOnce(r, 500) /\ Len(resp[r][1].details) > 0
        /\ outcome[q].kind = "throw" /\ outcome[q].thrown.value = Num(42)
        /\ AnsweredOnce(q, 500) /\ resp[q][1].details = <<"4", "2">>

\* C7: a POST /api/token request whose roomName or participantName is
\* present but not a string (a number, boolean, array or object) is
\* answered 400 whatever the configuration, before any configuration
\* lookup or signing work.
C7_WrongTypeRejected ==
    \A r \in TokenRequests :
        (WrongType(SentRoom(r)) \/ WrongType(SentName(r))) =>
            /\ AnsweredOnce(r, 400)
            /\ envReads[r] = {}
            /\ signLog[r] = <<>>

\* C8: in every signing invocation the identity and the display name are
\* the request's participantName and the single grant is scoped to the
\* request's roomName, the request being the one that triggered it.
C8_CredentialBoundToRequest ==
    \A r \in Requests : \A i \in 1..Len(signLog[r]) :
        /\ route[r] = "POST /api/token"
        /\ signLog[r][i].identity = SentName(r)
        /\ signLog[r][i].name = SentName(r)
        /\ Len(signLog[r][i].grants) = 1
        /\ signLog[r][i].grants[1].room = SentRoom(r)

C8_Witness ==
    \E r, q \in TokenRequests :
        /\ pc[r] = "await_sign" /\ pc[q] = "await_sign"
        /\ Len(signLog[r]) = 1 /\ Len(signLog[q]) = 1
        /\ SentRoom(r) # SentRoom(q) /\ SentName(r) # SentName(q)
        /\ signLog[r][1].identity = Str(<<"al">>)
        /\ signLog[q][1].grants[1].room = Str(<<" ", "r2", " ">>)

\* C9: GET /health is answered 200 with status "ok" in every configuration
\* state and after any earlier requests; handling it reads no signing
\* configuration and does not invoke the signing primitive.
C9_HealthAlwaysOk ==
    \A r \in Requests :
        route[r] = "GET /health" =>
            /\ AnsweredOnce(r, 200)
            /\ resp[r][1].ctype = "json"
            /\ "status" \in resp[r][1].keys
            /\ resp[r][1].statusField = <<"ok">>
            /\ envReads[r] = {}
            /\ signLog[r] = <<>>
            /\ outcome[r].kind = "none"

C9_Witness ==
    \E r, q \in Requests :
        /\ q < r
        /\ ~ConfigComplete
        /\ route[q] = "POST /api/token" /\ AnsweredOnce(q, 500)
        /\ route[r] = "GET /health" /\ AnsweredOnce(r, 200)

\* The strings a response carries.
ResponseStrings(x) ==
    {x.error, x.details, x.token, x.serverUrl, x.statusField, x.message}

\* C10: no response contains the signing secret; in particular the
\* `details` of a signing-failure response never includes it, whatever
\* message the underlying failure carries.
C10_NoSecretInResponse ==
    Present(env.LIVEKIT_API_SECRET) =>
        \A r \in Requests : \A i \in 1..Len(resp[r]) :
            \A str \in ResponseStrings(resp[r][i]) :
                ~Contains(str, env.LIVEKIT_API_SECRET.s)

\* The configuration values that are set to a non-empty string.
ConfiguredStrings ==
    {e.s : e \in {x \in {env.LIVEKIT_API_KEY, env.LIVEKIT_API_SECRET,
                          env.LIVEKIT_URL} : Present(x)}}

\* C11: the 400 given to an invalid request carries no configuration
\* information: its status and body are one fixed answer, the same in
\* every configuration state (all set, partly set, none set), produced
\* without reading the configuration and containing none of its values.
C11_ValidationErrorIndependentOfConfig ==
    \A r \in TokenRequests :
        ((MissingOrEmpty(SentRoom(r)) \/ MissingOrEmpty(SentName(r)))
            \/ (\E i \in 1..Len(resp[r]) : resp[r][i].status = 400)) =>
            /\ AnsweredOnce(r, 400)
            /\ resp[r][1] =
                  Response(400, "json", {"error"},
                      [Blank EXCEPT
                          !.error = <<"roomName and participantName are required">>])
            /\ envReads[r] = {}
            /\ \A str \in ResponseStrings(resp[r][1]) :
                  \A c \in ConfiguredStrings : ~Contains(str, c)

C11_Witness ==
    \E r \in TokenRequests :
        /\ Present(env.LIVEKIT_API_KEY) /\ Present(env.LIVEKIT_URL)
        /\ env.LIVEKIT_API_SECRET = EnvUnset
        /\ SentRoom(r) = Str(<<"r1">>) /\ SentName(r) = Undefined
        /\ AnsweredOnce(r, 400)

\* The three JSON answers of the token route.
TokenRouteShape(x) ==
    /\ x.ctype = "json"
    /\ \/ x.status = 200
          /\ x.keys = {"token", "serverUrl", "roomName", "participantName"}
       \/ x.status = 400 /\ x.keys = {"error"}
       \/ x.status = 500 /\ x.keys \in {{"error"}, {"error", "details"}}

\* C12: every response to POST /api/token, for every request body (also an
\* absent, unparseable or non-object one), is JSON of one of three shapes:
\* 200 {token, serverUrl, roomName, participantName}, 400 {error}, or
\* 500 {error, details?}; no other status and no non-JSON body.
C12_ThreeJsonShapes ==
    \A r \in AllTokenRequests : \A i \in 1..Len(resp[r]) :
        TokenRouteShape(resp[r][i])

\* C13: the process never terminates because of request handling or of
\* missing configuration: it starts in every configuration state, and
\* after requests ending in a validation, configuration or signing error
\* it is still listening and takes the next request.
C13_ProcessKeepsRunning ==
    /\ server # "crashed"
    /\ server = "starting" => ENABLED Listen
    /\ (\E r \in Requests : pc[r] # "new") => server = "listening"
    /\ (server = "listening" /\ \E r \in Requests : pc[r] = "new") =>
           /\ ENABLED (\E r \in Requests : GetHealth(r))
           /\ ENABLED (\E r \in Requests, b \in Bodies : PostToken(r, b))

C13_Witness ==
    /\ MissingOrEmpty(SentRoom(1)) /\ route[1] = "POST /api/token"
    /\ AnsweredOnce(1, 400)
    /\ route[2] = "POST /api/token"
    /\ outcome[2].kind = "throw" /\ ~outcome[2].thrown.isError
    /\ AnsweredOnce(2, 500)
    /\ server = "listening"

\* The answer to token request r when it is handled alone: a function of
\* its own body, the configuration and its own signing outcome.
AnswerAlone(r) ==
    IF ~Truthy(SentRoom(r)) \/ ~Truthy(SentName(r))
    THEN Response(400, "json", {"error"},
             [Blank EXCEPT !.error = <<"roomName and participantName are required">>])
    ELSE IF ~ConfigComplete
    THEN Response(500, "json", {"error"},
             [Blank EXCEPT !.error = <<"LiveKit credentials are not configured">>])
    ELSE IF outcome[r].kind = "token"
    THEN Response(200, "json", {"token", "serverUrl", "roomName", "participantName"},
             [Blank EXCEPT !.token = outcome[r].token,
                           !.serverUrl = env.LIVEKIT_URL.s,
                           !.roomName = SentRoom(r),
                           !.participantName = SentName(r)])
    ELSE Response(500, "json", {"error", "details"},
             [Blank EXCEPT !.error = <<"Failed to generate token">>,
                           !.details = IF outcome[r].thrown.isError
                                       THEN outcome[r].thrown.message
                                       ELSE String(outcome[r].thrown.value)])

\* C14: requests are independent under every interleaving: each token
\* request, also one repeating another's roomName/participantName pair,
\* is answered as if handled alone, each valid one has its own signing
\* invocation and its own non-empty credential, and none is rejected,
\* deduplicated or answered with another request's data.
C14_RequestsIndependent ==
    \A r \in TokenRequests :
        /\ pc[r] = "done" => resp[r] = <<AnswerAlone(r)>>
        /\ pc[r] = "await_sign" => resp[r] = <<>>
        /\ (Truthy(SentRoom(r)) /\ Truthy(SentName(r)) /\ ConfigComplete) =>
              /\ Len(signLog[r]) = 1
              /\ signLog[r][1].identity = SentName(r)
              /\ signLog[r][1].grants[1].room = SentRoom(r)
              /\ outcome[r].kind = "token" =>
                    (Len(outcome[r].token) > 0 /\ resp[r][1].status = 200)

C14_Witness ==
    \E r, q \in TokenRequests :
        /\ r < q
        /\ body[r] = body[q]
        /\ pc[r] = "await_sign"
        /\ AnsweredOnce(q, 200)

\* C15: GET /client (the LiveKit client page) is served by a registered
\* route, like GET /, GET /health and POST /api/token, and does not fall
\* through as not found.
C15_ClientRouteServed ==
    \A r \in Requests :
        route[r] = "GET /client" =>
            /\ route[r] \in RegisteredRoutes
            /\ \A i \in 1..Len(resp[r]) : resp[r][i].status # 404

\* C16: the three error kinds are terminal, with no retry: per token
\* request the signing primitive is invoked at most once, exactly once
\* when validation and the configuration check both pass, and not again
\* after it has failed.
C16_NoRetry ==
    /\ \A r \in Requests : Len(signLog[r]) <= 1
    /\ \A r \in TokenRequests :
          /\ Len(signLog[r]) =
                (IF Truthy(SentRoom(r)) /\ Truthy(SentName(r)) /\ ConfigComplete
                 THEN 1 ELSE 0)
          /\ outcome[r].kind = "throw" => (pc[r] = "done" /\ Len(signLog[r]) = 1)
          /\ (\E i \in 1..Len(resp[r]) : resp[r][i].status \in {400, 500}) =>
                (pc[r] = "done" /\ Len(resp[r]) = 1)

C16_Witness ==
    \E r, q \in TokenRequests :
        /\ r # q
        /\ outcome[r].kind = "throw" /\ pc[r] = "done" /\ Len(signLog[r]) = 1
        /\ outcome[q].kind = "token" /\ pc[q] = "done" /\ Len(signLog[q]) = 1

\* C17: within one token request the steps come in the order validation,
\* configuration lookup, signing invocation, response, and the signing
\* call is the only suspension point: a validation or configuration
\* failure is answered before the handler yields, so no request is ever
\* seen between its validation and its configuration check.
C17_OrderAndSingleSuspension ==
    \A r \in TokenRequests :
        LET valid == Truthy(SentRoom(r)) /\ Truthy(SentName(r))
        IN  /\ pc[r] \in {"await_sign", "done"}
            /\ envReads[r] # {} => valid
            /\ valid => envReads[r] = {"LIVEKIT_API_KEY", "LIVEKIT_API_SECRET",
                                        "LIVEKIT_URL"}
            /\ signLog[r] # <<>> => (envReads[r] # {} /\ ConfigComplete)
            /\ outcome[r].kind # "none" => signLog[r] # <<>>
            /\ (\E i \in 1..Len(resp[r]) :
                    resp[r][i].status = 200 \/ "details" \in resp[r][i].keys) =>
                  outcome[r].kind # "none"
            /\ pc[r] = "await_sign" =>
                  /\ valid /\ ConfigComplete
                  /\ Len(signLog[r]) = 1
                  /\ outcome[r].kind = "none"
                  /\ resp[r] = <<>>
            /\ (~valid \/ ~ConfigComplete) => (pc[r] = "done" /\ Len(resp[r]) = 1)

C17_Witness ==
    \E r, q \in TokenRequests :
        /\ r < q
        /\ pc[r] = "await_sign" /\ resp[r] = <<>>
        /\ MissingOrEmpty(SentName(q)) /\ NonEmptyString(SentRoom(q))
        /\ AnsweredOnce(q, 400)

\* The configuration a request was handled with is the process's own.
UsesProcessConfig ==
    \A r \in TokenRequests :
        /\ \A i \in 1..Len(signLog[r]) :
              /\ Present(env.LIVEKIT_API_KEY) /\ Present(env.LIVEKIT_API_SECRET)
              /\ signLog[r][i].apiKey = env.LIVEKIT_API_KEY.s
              /\ signLog[r][i].apiSecret = env.LIVEKIT_API_SECRET.s
        /\ \A i \in 1..Len(resp[r]) :
              resp[r][i].status = 200 =>
                  (Present(env.LIVEKIT_URL)
                      /\ resp[r][i].serverUrl = env.LIVEKIT_URL.s)

\* C18: handling a request (GET /, GET /health, POST /api/token, on
\* success or on any error path) leaves the process-wide configuration
\* unchanged, and nothing in a request overrides the values used for it:
\* every request is handled with the configuration set at startup.
C18_ConfigurationImmutable == [][env' = env /\ UsesProcessConfig']_vars

C18_Witness ==
    \E r, q \in Requests :
        /\ q < r
        /\ route[q] = "GET /" /\ pc[q] = "done"
        /\ route[r] = "POST /api/token"
        /\ body[r].extra.serverUrl = Str(<<"wss://", "other.example">>)
        /\ AnsweredOnce(r, 200)
        /\ resp[r][1].serverUrl = env.LIVEKIT_URL.s

\* C19: a credential is released on the success path only: a response
\* with a `token` field has status 200 and answers a request that passed
\* validation, was handled with all three configuration values present
\* and whose signing invocation succeeded; no 400 or 500 response carries
\* a token or the media-service address.
C19_TokenOnlyOnSuccess ==
    \A r \in Requests : \A i \in 1..Len(resp[r]) :
        LET x == resp[r][i]
        IN  /\ ("token" \in x.keys \/ Len(x.token) > 0) =>
                  /\ x.status = 200
                  /\ r \in TokenRequests
                  /\ Truthy(SentRoom(r)) /\ Truthy(SentName(r))
                  /\ ConfigComplete
                  /\ Len(signLog[r]) = 1
                  /\ outcome[r].kind = "token"
                  /\ x.token = outcome[r].token
            /\ (r \in AllTokenRequests /\ x.status # 200) =>
                  /\ x.status \in {400, 500}
                  /\ "token" \notin x.keys /\ Len(x.token) = 0
                  /\ "serverUrl" \notin x.keys /\ Len(x.serverUrl) = 0

C19_Witness ==
    \E r, q \in TokenRequests :
        /\ AnsweredOnce(r, 200) /\ "token" \in resp[r][1].keys
        /\ AnsweredOnce(q, 500) /\ "details" \in resp[q][1].keys
        /\ "token" \notin resp[q][1].keys

\* C20: at most one response is written per token request on every path:
\* after the 400 or the configuration 500 the handler has returned, with
\* no signing and no catch block, and the catch block's 500 is never
\* written for a request whose 200 was sent.
C20_AtMostOneResponse ==
    \A r \in AllTokenRequests :
        /\ Len(resp[r]) <= 1
        /\ pc[r] = "done" => Len(resp[r]) = 1
        /\ \A i \in 1..Len(resp[r]) :
              LET x == resp[r][i]
              IN  /\ (x.status = 400 \/ (x.status = 500 /\ "details" \notin x.keys)) =>
                        /\ pc[r] = "done"
                        /\ signLog[r] = <<>>
                        /\ outcome[r].kind = "none"
                  /\ x.status = 200 =>
                        /\ outcome[r].kind = "token"
                        /\ \A j \in 1..Len(resp[r]) : "details" \notin resp[r][j].keys
                  /\ "details" \in x.keys => outcome[r].kind = "throw"

C20_Witness ==
    \E r, q \in TokenRequests :
        /\ ConfigComplete
        /\ MissingOrEmpty(SentRoom(r)) /\ MissingOrEmpty(SentName(r))
        /\ body[r].kind = "object"
        /\ AnsweredOnce(r, 400)
        /\ AnsweredOnce(q, 200) /\ outcome[q].kind = "token"

\* The complete configurations the process can have.
CompleteConfigs ==
    {e \in Environments \cup {RotatedEnv} :
        Present(e.LIVEKIT_API_KEY) /\ Present(e.LIVEKIT_API_SECRET)
            /\ Present(e.LIVEKIT_URL)}

\* C21: the three configuration values used for one request are a single
\* snapshot taken before the signing await: the serverUrl of a 200 is the
\* address read together with the key id and the secret given to the
\* signing primitive for that request, also when other requests are
\* handled or the environment changes while the signing call is pending.
C21_ConfigurationSnapshot ==
    \A r \in TokenRequests :
        /\ pc[r] = "await_sign" =>
              /\ envReads[r] = {"LIVEKIT_API_KEY", "LIVEKIT_API_SECRET", "LIVEKIT_URL"}
              /\ Len(signLog[r]) = 1
              /\ \E e \in CompleteConfigs :
                    /\ signLog[r][1].apiKey = e.LIVEKIT_API_KEY.s
                    /\ signLog[r][1].apiSecret = e.LIVEKIT_API_SECRET.s
        /\ \A i \in 1..Len(resp[r]) :
              resp[r][i].status = 200 =>
                  /\ Len(signLog[r]) = 1
                  /\ \E e \in CompleteConfigs :
                        /\ signLog[r][1].apiKey = e.LIVEKIT_API_KEY.s
                        /\ signLog[r][1].apiSecret = e.LIVEKIT_API_SECRET.s
                        /\ resp[r][i].serverUrl = e.LIVEKIT_URL.s

C21_Witness ==
    \E r, q \in TokenRequests :
        /\ r < q
        /\ env = RotatedEnv
        /\ AnsweredOnce(r, 200) /\ AnsweredOnce(q, 200)
        /\ signLog[r][1].apiKey = <<"APIkey">>
        /\ resp[r][1].serverUrl = <<"wss://", "lk.example">>
        /\ signLog[q][1].apiKey = <<"APIkey2">>
        /\ resp[q][1].serverUrl = <<"wss://", "lk2.example">>

\* C22: every POST /api/token request that reaches the handler is
\* eventually answered, provided its signing call eventually returns or
\* fails: from every moment on there comes a moment at which each request
\* that had reached the handler has its answer.  The handler adds no
\* waiting of its own, so a request that reached the handler and has no
\* answer yet is waiting for its signing call.
C22_EventuallyAnswered ==
    /\ [](\A r \in TokenRequests : resp[r] = <<>> => pc[r] = "await_sign")
    /\ []<>(\A r \in TokenRequests : pc[r] = "done" /\ Len(resp[r]) = 1)

C22_Witness ==
    \E r, q \in TokenRequests :
        /\ r < q
        /\ outcome[r].kind = "token" /\ AnsweredOnce(r, 200)
        /\ outcome[q].kind = "throw" /\ outcome[q].thrown.isError
        /\ AnsweredOnce(q, 500)
        /\ \A p \in TokenRequests : resp[p] # <<>>

====
